---- MODULE Spec2Model ----
(***************************************************************************)
(* State-machine model of the Book class (src/src/book/book.ts): the cover *)
(* open/close animation, the page-turn animation and the spread index.     *)
(*                                                                         *)
(* Time.  performance.now()/1000 is the variable `now`, counted in ticks   *)
(* of 0.4 s, so that the default durations speeds.cover = 1.6 s and        *)
(* speeds.flip = 1.2 s are CoverDur = 4 and FlipDur = 3 ticks.             *)
(*                                                                         *)
(* Angles.  easeInOut(u) of u = e/D is the exact rational                  *)
(* easeNum(e, D) / D^3.  Cover-hinge and page-half angles are stored as    *)
(* numerators over CoverDen in units of pi/2 (closed left = +CoverDen,     *)
(* closed right = -CoverDen, open = 0); flip-hinge angles as numerators    *)
(* over FlipDen in units of pi (half-turn = +-FlipDen).                    *)
(***************************************************************************)
EXTENDS Integers, Sequences, FiniteSets, TLC

VARIABLES
    now,            \* performance.now() / 1000, in ticks
    nSpreads,       \* this.spreads.length (fixed at construction)
    spreadIndex,    \* this.spreadIndex
    pageInfo,       \* this.pageInfo.textContent, as <<index + 1, total>>
    cover,          \* this.cover: open, t0, anim
    coverRot,       \* leftCoverPivot / rightCoverPivot rotation.y
    halfRot,        \* halfL / halfR rotation.y
    flip,           \* this.flip
    visible,        \* .visible of leftPage, rightPage, underLeft, underRight
    matMap,         \* .map of leftMat, rightMat, underMatL, underMatR
    pivotRot,       \* pivotL / pivotR rotation.y
    children,       \* meshes parented under pivotL / pivotR
    flippedCache,   \* this.flippedCache
    cloned,         \* number of textures created so far by cloneFlipX (object identity)
    scene,          \* the rig: the set of static child nodes of every static node
    config,         \* the argument of a constructor call that has not run yet
    error,          \* the Error thrown by the constructor, "none" if none
    pc,             \* position inside flipPage's acceptance, 0 between calls
    emitted,        \* callbacks invoked by the last call, in order
    lastCall,       \* history: the last operation called and whether accepted
    turn,           \* history: index, direction and time at acceptance of the active turn
    rt,             \* history: the states in which the last two toggleCover calls were accepted
    lastToggleNote  \* history: the value carried by the latest onCoverToggle, "none" before

progVars ==
    <<nSpreads, spreadIndex, pageInfo, cover, coverRot, halfRot, flip,
      visible, matMap, pivotRot, children, flippedCache, cloned, scene>>

\* the constructor's argument and outcome, and the position inside flipPage
ctlVars == <<config, error, pc>>

vars ==
    <<now, nSpreads, spreadIndex, pageInfo, cover, coverRot, halfRot, flip,
      visible, matMap, pivotRot, children, flippedCache, cloned, scene,
      config, error, pc, emitted, lastCall, turn, rt, lastToggleNote>>

----------------------------------------------------------------------------
(* Bounds of the model *)

MaxSpreads == 3

MaxTime == 12

(* Program constants *)

CoverDur == 4

FlipDur == 3

leftClosedRot == 1

rightClosedRot == -1

leftOpenRot == 0

rightOpenRot == 0

CoverDen == CoverDur * CoverDur * CoverDur

FlipDen == FlipDur * FlipDur * FlipDur

Dirs == {-2, -1, 0, 1, 2}

InitialIndices == -1 .. MaxSpreads

----------------------------------------------------------------------------
(* Pure helpers *)

Min(a, b) == IF a < b THEN a ELSE b

Max(a, b) == IF a > b THEN a ELSE b

clamp(x, lo, hi) == Max(lo, Min(hi, x))

\* easeInOut(min(1, e / D)) as a numerator over D^3
easeNum(e, D) ==
    LET u == Min(D, e)
    IN  IF 2 * u < D
        THEN 4 * u * u * u
        ELSE D * D * D - 4 * (D - u) * (D - u) * (D - u)

\* THREE.MathUtils.lerp(x, y, t) = (1 - t) * x + t * y with t = tNum / den,
\* as a numerator over den
lerp(x, y, tNum, den) == (den - tNum) * x + tNum * y

\* k <= 0.55 for k = kNum / den
belowCrossover(kNum, den) == 100 * kNum <= 55 * den

----------------------------------------------------------------------------
(* Textures, meshes *)

\* A texture handle: the page it was made from, whether repeat.x / offset.x
\* are inverted, and which clone it is (0: the caller's own texture)
NoTex == [spread |-> -1, side |-> "null", mirrored |-> FALSE, clone |-> 0]

\* spreads[i].left / spreads[i].right
SpreadTex(i, side) == [spread |-> i, side |-> side, mirrored |-> FALSE, clone |-> 0]

cloneFlipX_plain(tex, id) == [tex EXCEPT !.clone = id]

\* tex.clone() with repeat (-1, 1) and offset (1, 0); id names the new object
cloneFlipX(tex, id) == [tex EXCEPT !.mirrored = TRUE, !.clone = id]

NoMesh == [geo |-> "null", side |-> "null", map |-> NoTex]

NewMesh(geo, side, map) == [geo |-> geo, side |-> side, map |-> map]

CacheKey_noSide(n, side) == <<n, "left">>

CacheKey(n, side) == <<n, side>>

cacheAfterGet_forget(cache, tex, key, id) == cache

cacheAfterGet_replace(cache, tex, key, id) ==
    (key :> cloneFlipX(tex, id)) @@ cache

\* the handle returned by getFlippedTex; id is the next free clone number
getFlippedTex(cache, tex, key, id) ==
    IF key \in DOMAIN cache THEN cache[key] ELSE cloneFlipX(tex, id)

\* this.flippedCache after the call
cacheAfterGet(cache, tex, key, id) ==
    IF key \in DOMAIN cache THEN cache ELSE (key :> cloneFlipX(tex, id)) @@ cache

\* the number of clones made after the call
clonedAfterGet(cache, key, n) == IF key \in DOMAIN cache THEN n ELSE n + 1

SetVis(v, name, val) == IF name = "null" THEN v ELSE [v EXCEPT ![name] = val]

SpreadChange(i, total) ==
    [type |-> "spreadChange", index |-> i, total |-> total, open |-> FALSE]

CoverToggle(o) ==
    [type |-> "coverToggle", index |-> -1, total |-> -1, open |-> o]

----------------------------------------------------------------------------
(* History *)

NoTurn == [from |-> -1, dir |-> 0, t0 |-> -1, updated |-> FALSE]

\* the observable cover state and index at the moment a toggleCover is accepted
NoSnapshot ==
    [open |-> TRUE, index |-> -1,
     coverRot |-> [left |-> 0, right |-> 0], halfRot |-> [L |-> 0, R |-> 0]]

Snapshot ==
    [open |-> cover.open, index |-> spreadIndex,
     coverRot |-> coverRot, halfRot |-> halfRot]

\* count: toggles accepted since the last accepted turn (at most 2 are kept);
\* done: the animation of the latest one was ended by an update;
\* prev / prev2: the snapshots taken at the latest toggle and the one before
NoRoundTrip ==
    [count |-> 0, done |-> FALSE, prev |-> NoSnapshot, prev2 |-> NoSnapshot]

\* a call on record; dir is its numeric argument: dir of flipPage, _deltaTime
\* of update, 0 for the others; lookups: the <<key, texture>> pairs the call
\* passed to getFlippedTex
Call(name, dir, accepted) ==
    [name |-> name, dir |-> dir, accepted |-> accepted, lookups |-> {}]

----------------------------------------------------------------------------
(* Guards of the public operations *)

\* variants of the guards and steps below, each with one plausible slip
toggleCoverBlocked_noFlip == cover.anim

toggleCoverBlocked_noAnim == flip.active

\* toggleCover: if (this.flip.active || this.cover.anim) return
toggleCoverBlocked == flip.active \/ cover.anim

flipCoverBlocked_noAnim == ~cover.open

\* flipPage: if (!this.cover.open || this.cover.anim) return
flipCoverBlocked == ~cover.open \/ cover.anim

flipBusy_never == FALSE

\* flipPage: if (this.flip.active) return
flipBusy == flip.active

outOfBounds_noUpper(nextIndex) == nextIndex < 0

outOfBounds_offByOne(nextIndex) == nextIndex < 0 \/ nextIndex > nSpreads

\* flipPage: if (nextIndex < 0 || nextIndex >= this.spreads.length) return
outOfBounds(nextIndex) == nextIndex < 0 \/ nextIndex >= nSpreads

setSpreadIndex_noClamp(i, n) == i

\* setSpread: this.spreadIndex = clamp(i, 0, this.spreads.length - 1)
setSpreadIndex(i, n) == clamp(i, 0, n - 1)

setSpreadEmits_oneBased(i, n) == <<SpreadChange(i + 1, n)>>

\* setSpread: this.callbacks?.onSpreadChange?.(this.spreadIndex, this.spreads.length)
setSpreadEmits(i, n) == <<SpreadChange(i, n)>>

toggleEmits_before(newOpen) == <<CoverToggle(~newOpen)>>

\* toggleCover: this.callbacks?.onCoverToggle?.(this.cover.open), after the flip of open
toggleEmits(newOpen) == <<CoverToggle(newOpen)>>

setSpreadMaps_leftOnly(m, i) ==
    [m EXCEPT !["leftMat"] = SpreadTex(i, "left")]

setSpreadMaps_swapped(m, i) ==
    [m EXCEPT !["leftMat"] = SpreadTex(i, "right"),
              !["rightMat"] = SpreadTex(i, "left")]

\* setSpread: leftMat.map = spread.left; rightMat.map = spread.right
setSpreadMaps(m, i) ==
    [m EXCEPT !["leftMat"] = SpreadTex(i, "left"),
              !["rightMat"] = SpreadTex(i, "right")]

----------------------------------------------------------------------------
(* The scene tree built by the constructor *)

Nodes ==
    {"group", "spine", "pivotR", "pivotL", "leftCoverPivot", "rightCoverPivot",
     "leftCover", "rightCover", "content", "halfL", "halfR",
     "pageBlockL", "leftPage", "leftBack", "underLeft",
     "pageBlockR", "rightPage", "rightBack", "underRight"}

EmptyScene == [n \in Nodes |-> {}]

\* parent.add(child): THREE.Object3D.add detaches the child from the parent it
\* has, then appends it to parent.children
sceneAdd(s, parent, child) ==
    [n \in DOMAIN s |-> IF n = parent THEN s[n] \cup {child} ELSE s[n] \ {child}]

AddOps_halvesFirst ==
    << <<"group", "spine">>,
       <<"group", "leftCoverPivot">>, <<"group", "rightCoverPivot">>,
       <<"leftCoverPivot", "leftCover">>, <<"rightCoverPivot", "rightCover">>,
       <<"group", "content">>, <<"content", "halfL">>, <<"content", "halfR">>,
       <<"halfL", "pageBlockL">>, <<"halfL", "leftPage">>, <<"halfL", "leftBack">>,
       <<"halfL", "underLeft">>, <<"halfL", "pivotL">>,
       <<"halfR", "pageBlockR">>, <<"halfR", "rightPage">>, <<"halfR", "rightBack">>,
       <<"halfR", "underRight">>, <<"halfR", "pivotR">>,
       <<"group", "pivotR">>, <<"group", "pivotL">> >>

\* the constructor's add calls, <<parent, child>>, in program order
AddOps ==
    << <<"group", "spine">>,
       <<"group", "pivotR">>, <<"group", "pivotL">>,
       <<"group", "leftCoverPivot">>, <<"group", "rightCoverPivot">>,
       <<"leftCoverPivot", "leftCover">>, <<"rightCoverPivot", "rightCover">>,
       <<"group", "content">>, <<"content", "halfL">>, <<"content", "halfR">>,
       <<"halfL", "pageBlockL">>, <<"halfL", "leftPage">>, <<"halfL", "leftBack">>,
       <<"halfL", "underLeft">>, <<"halfL", "pivotL">>,
       <<"halfR", "pageBlockR">>, <<"halfR", "rightPage">>, <<"halfR", "rightBack">>,
       <<"halfR", "underRight">>, <<"halfR", "pivotR">> >>

RECURSIVE BuildScene(_, _)
BuildScene(ops, s) ==
    IF ops = << >> THEN s
    ELSE BuildScene(Tail(ops), sceneAdd(s, Head(ops)[1], Head(ops)[2]))

----------------------------------------------------------------------------
(* The constructor's argument *)

\* a spread of the config: whether its left / right texture is there
ConfigSpreads ==
    UNION {[1 .. n -> [left : BOOLEAN, right : BOOLEAN]] : n \in 0 .. MaxSpreads}

\* config.initialSpreadIndex, which may be left out
InitialOptions ==
    {[given |-> FALSE, value |-> 0]}
        \cup {[given |-> TRUE, value |-> v] : v \in InitialIndices}

NoConfig ==
    [pending |-> FALSE, spreads |-> << >>,
     initialSpreadIndex |-> [given |-> FALSE, value |-> 0]]

\* a config whose n spreads all have both textures
ValidConfig(n, opt) ==
    [pending |-> TRUE, spreads |-> [k \in 1 .. n |-> [left |-> TRUE, right |-> TRUE]],
     initialSpreadIndex |-> opt]

\* config.initialSpreadIndex ?? 0
initialOrZero_one(opt) == IF opt.given THEN opt.value ELSE 1

initialOrZero(opt) == IF opt.given THEN opt.value ELSE 0

validateConfig_noSideCheck(spreads) ==
    IF Len(spreads) = 0 THEN "spreads debe tener al menos 1 spread" ELSE "none"

\* validateConfig: the message of the Error thrown, "none" when it returns
validateConfig(spreads) ==
    IF Len(spreads) = 0
    THEN "spreads debe tener al menos 1 spread"
    ELSE IF ~(\A k \in 1 .. Len(spreads) : spreads[k].left /\ spreads[k].right)
         THEN "cada spread debe tener left y right"
         ELSE "none"

----------------------------------------------------------------------------
(* The state after new Book(renderer, camera, config) *)

\* the fields of the Book when the constructor returns
NewBook(n, opt) ==
    LET i == setSpreadIndex(initialOrZero(opt), n)
    IN  [nSpreads    |-> n,
         spreadIndex |-> i,
         pageInfo    |-> <<i + 1, n>>,
         cover       |-> [open |-> TRUE, t0 |-> 0, anim |-> FALSE],
         coverRot    |-> [left |-> 0, right |-> 0],
         halfRot     |-> [L |-> 0, R |-> 0],
         flip        |-> [active |-> FALSE, dir |-> 0, t0 |-> 0, pivot |-> "null",
                          hidden |-> "null", frontMesh |-> NoMesh,
                          backMesh |-> NoMesh, under |-> "null", other |-> "null",
                          otherWasVisible |-> TRUE],
         visible     |-> [leftPage |-> TRUE, rightPage |-> TRUE,
                          underLeft |-> FALSE, underRight |-> FALSE],
         matMap      |-> setSpreadMaps([leftMat |-> NoTex, rightMat |-> NoTex,
                                        underMatL |-> NoTex, underMatR |-> NoTex], i),
         pivotRot    |-> [pivotL |-> 0, pivotR |-> 0],
         children    |-> [pivotL |-> {}, pivotR |-> {}],
         scene       |-> BuildScene(AddOps, EmptyScene),
         emitted     |-> setSpreadEmits(i, n)]

Constructed(n, opt) ==
    LET b == NewBook(n, opt)
    IN  /\ now = 0
        /\ nSpreads = b.nSpreads
        /\ spreadIndex = b.spreadIndex
        /\ pageInfo = b.pageInfo
        /\ cover = b.cover
        /\ coverRot = b.coverRot
        /\ halfRot = b.halfRot
        /\ flip = b.flip
        /\ visible = b.visible
        /\ matMap = b.matMap
        /\ pivotRot = b.pivotRot
        /\ children = b.children
        /\ flippedCache = << >>
        /\ cloned = 0
        /\ scene = b.scene
        /\ config = NoConfig
        /\ error = "none"
        /\ pc = 0
        /\ emitted = b.emitted
        /\ lastCall = Call("constructor", 0, TRUE)
        /\ turn = NoTurn
        /\ rt = NoRoundTrip
        /\ lastToggleNote = "none"

Init ==
    \E n \in 1 .. MaxSpreads : \E opt \in InitialOptions : Constructed(n, opt)

----------------------------------------------------------------------------
(* new Book(renderer, camera, config) as a step: the constructor either     *)
(* throws from validateConfig or returns the Book                           *)

\* before the call: no Book, the status element still shows the page's own text
Unbuilt(cfg) ==
    /\ now = 0
    /\ nSpreads = 0
    /\ spreadIndex = 0
    /\ pageInfo = <<0, 0>>
    /\ cover = [open |-> TRUE, t0 |-> 0, anim |-> FALSE]
    /\ coverRot = [left |-> 0, right |-> 0]
    /\ halfRot = [L |-> 0, R |-> 0]
    /\ flip = NewBook(1, [given |-> FALSE, value |-> 0]).flip
    /\ visible = [leftPage |-> FALSE, rightPage |-> FALSE,
                  underLeft |-> FALSE, underRight |-> FALSE]
    /\ matMap = [leftMat |-> NoTex, rightMat |-> NoTex,
                 underMatL |-> NoTex, underMatR |-> NoTex]
    /\ pivotRot = [pivotL |-> 0, pivotR |-> 0]
    /\ children = [pivotL |-> {}, pivotR |-> {}]
    /\ flippedCache = << >>
    /\ cloned = 0
    /\ scene = EmptyScene
    /\ config = cfg
    /\ error = "none"
    /\ pc = 0
    /\ emitted = << >>
    /\ lastCall = Call("none", 0, FALSE)
    /\ turn = NoTurn
    /\ rt = NoRoundTrip
    /\ lastToggleNote = "none"

ConstructInit ==
    \E sp \in ConfigSpreads : \E opt \in InitialOptions :
        Unbuilt([pending |-> TRUE, spreads |-> sp, initialSpreadIndex |-> opt])

Construct ==
    LET err == validateConfig(config.spreads)
        b   == NewBook(Len(config.spreads), config.initialSpreadIndex)
    IN  /\ config.pending
        /\ config' = [config EXCEPT !.pending = FALSE]
        /\ error' = err
        /\ lastCall' = Call("constructor", 0, err = "none")
        /\ IF err # "none"
           THEN UNCHANGED <<now, progVars, pc, emitted, turn, rt, lastToggleNote>>
           ELSE /\ nSpreads' = b.nSpreads
                /\ spreadIndex' = b.spreadIndex
                /\ pageInfo' = b.pageInfo
                /\ cover' = b.cover
                /\ coverRot' = b.coverRot
                /\ halfRot' = b.halfRot
                /\ flip' = b.flip
                /\ visible' = b.visible
                /\ matMap' = b.matMap
                /\ pivotRot' = b.pivotRot
                /\ children' = b.children
                /\ scene' = b.scene
                /\ emitted' = b.emitted
                /\ UNCHANGED <<now, flippedCache, cloned, pc, turn, rt,
                               lastToggleNote>>

SpecConstruct == ConstructInit /\ [][Construct]_vars

----------------------------------------------------------------------------
(* The clock advances between calls *)

Tick ==
    /\ now < MaxTime
    /\ now' = now + 1
    /\ emitted' = << >>
    /\ lastCall' = Call("tick", 0, TRUE)
    /\ UNCHANGED <<progVars, ctlVars, turn, rt, lastToggleNote>>

----------------------------------------------------------------------------
(* toggleCover() *)

ToggleCover ==
    /\ lastCall' = Call("toggleCover", 0, ~toggleCoverBlocked)
    /\ IF toggleCoverBlocked
       THEN /\ emitted' = << >>
            /\ UNCHANGED <<now, progVars, ctlVars, turn, rt, lastToggleNote>>
       ELSE /\ cover' = [open |-> ~cover.open, t0 |-> now, anim |-> TRUE]
            /\ emitted' = toggleEmits(~cover.open)
            /\ lastToggleNote' = IF emitted'[1].open THEN "open" ELSE "closed"
            /\ rt' = [count |-> Min(2, rt.count + 1), done |-> FALSE,
                      prev |-> Snapshot,
                      prev2 |-> IF rt.count >= 1 THEN rt.prev ELSE NoSnapshot]
            /\ UNCHANGED <<now, nSpreads, spreadIndex, pageInfo, coverRot, halfRot,
                           flip, visible, matMap, pivotRot, children, flippedCache,
                           cloned, scene, ctlVars, turn>>

----------------------------------------------------------------------------
(* flipPage(dir) *)

\* the part of the state that an accepted flipPage writes
CurSt ==
    [flip |-> flip, visible |-> visible, matMap |-> matMap, pivotRot |-> pivotRot,
     children |-> children, flippedCache |-> flippedCache, cloned |-> cloned,
     lookups |-> {}]

\* this.flip.active = true; this.flip.dir = dir; this.flip.t0 = now
acceptBegin(st, dir) ==
    [st EXCEPT !.flip = [@ EXCEPT !.active = TRUE, !.dir = dir, !.t0 = now]]

isForward_inverted(dir) == dir = -1

\* if (dir === 1) ... else ...
isForward(dir) == dir = 1

\* one group of statements of the branch taken (dir === 1, or else), by name
acceptStep(name, st) ==
    LET forward   == isForward(st.flip.dir)
        nextIndex == spreadIndex + st.flip.dir
        other     == IF forward THEN "leftPage" ELSE "rightPage"
        under     == IF forward THEN "underRight" ELSE "underLeft"
        underMat  == IF forward THEN "underMatR" ELSE "underMatL"
        hidden    == IF forward THEN "rightPage" ELSE "leftPage"
        pivot     == IF forward THEN "pivotR" ELSE "pivotL"
        geo       == IF forward THEN "geoTurnR" ELSE "geoTurnL"
        sameSide  == IF forward THEN "right" ELSE "left"
        backSide  == IF forward THEN "left" ELSE "right"
        frontTex  == IF forward THEN st.matMap["rightMat"] ELSE st.matMap["leftMat"]
        backSrc   == SpreadTex(nextIndex, backSide)
        key       == CacheKey(nextIndex, backSide)
        backTex   == getFlippedTex(st.flippedCache, backSrc, key, st.cloned + 1)
        frontMesh == NewMesh(geo, "FrontSide", frontTex)
        backMesh  == NewMesh(geo, "BackSide", backTex)
    IN  CASE name = "recordOther" ->
               [st EXCEPT !.flip = [@ EXCEPT !.other = other,
                                             !.otherWasVisible = st.visible[other]]]
          [] name = "showUnder" ->
               [st EXCEPT !.visible = [@ EXCEPT ![under] = TRUE]]
          [] name = "texUnder" ->
               [st EXCEPT !.matMap = [@ EXCEPT ![underMat] = SpreadTex(nextIndex, sameSide)],
                          !.flip = [@ EXCEPT !.under = under]]
          [] name = "hidePage" ->
               [st EXCEPT !.visible = [@ EXCEPT ![hidden] = FALSE],
                          !.flip = [@ EXCEPT !.hidden = hidden]]
          [] name = "resetPivot" ->
               [st EXCEPT !.flip = [@ EXCEPT !.pivot = pivot],
                          !.pivotRot = [@ EXCEPT ![pivot] = 0]]
          [] name = "buildMeshes" ->
               [st EXCEPT !.flip = [@ EXCEPT !.frontMesh = frontMesh,
                                             !.backMesh = backMesh],
                          !.children = [@ EXCEPT ![pivot] = @ \cup {frontMesh, backMesh}],
                          !.flippedCache = cacheAfterGet(@, backSrc, key, st.cloned + 1),
                          !.cloned = clonedAfterGet(st.flippedCache, key, @),
                          !.lookups = @ \cup {<<key, backSrc>>}]

acceptOrder_hideFirst ==
    <<"recordOther", "hidePage", "showUnder", "texUnder", "resetPivot", "buildMeshes">>

\* the statement groups of an accepted flipPage in program order
acceptOrder ==
    <<"recordOther", "showUnder", "texUnder", "hidePage", "resetPivot", "buildMeshes">>

RECURSIVE acceptFrom(_, _)
acceptFrom(k, st) ==
    IF k > Len(acceptOrder) THEN st
    ELSE acceptFrom(k + 1, acceptStep(acceptOrder[k], st))

flipAccepted(dir) ==
    ~flipCoverBlocked /\ ~flipBusy /\ ~outOfBounds(spreadIndex + dir)

\* the state written back
Install(st) ==
    /\ flip' = st.flip
    /\ visible' = st.visible
    /\ matMap' = st.matMap
    /\ pivotRot' = st.pivotRot
    /\ children' = st.children
    /\ flippedCache' = st.flippedCache
    /\ cloned' = st.cloned

FlipPage(dir) ==
    /\ lastCall' = [Call("flipPage", dir, flipAccepted(dir)) EXCEPT
                      !.lookups = IF flipAccepted(dir)
                                  THEN acceptFrom(1, acceptBegin(CurSt, dir)).lookups
                                  ELSE {}]
    /\ emitted' = << >>
    /\ IF ~flipAccepted(dir)
       THEN UNCHANGED <<now, progVars, ctlVars, turn, rt, lastToggleNote>>
       ELSE /\ Install(acceptFrom(1, acceptBegin(CurSt, dir)))
            /\ turn' = [from |-> spreadIndex, dir |-> dir, t0 |-> now,
                       updated |-> FALSE]
            /\ rt' = NoRoundTrip
            /\ UNCHANGED <<now, nSpreads, spreadIndex, pageInfo, cover,
                           coverRot, halfRot, scene, ctlVars, lastToggleNote>>

----------------------------------------------------------------------------
(* flipPage(dir) one statement group at a time: the states inside an        *)
(* accepted call.  Nothing else runs before the call returns.               *)

FlipBegin(dir) ==
    /\ pc = 0
    /\ lastCall' = Call("flipPage", dir, flipAccepted(dir))
    /\ emitted' = << >>
    /\ IF ~flipAccepted(dir)
       THEN UNCHANGED <<now, progVars, ctlVars, turn, rt, lastToggleNote>>
       ELSE /\ Install(acceptBegin(CurSt, dir))
            /\ pc' = 1
            /\ turn' = [from |-> spreadIndex, dir |-> dir, t0 |-> now,
                       updated |-> FALSE]
            /\ rt' = NoRoundTrip
            /\ UNCHANGED <<now, nSpreads, spreadIndex, pageInfo, cover,
                           coverRot, halfRot, scene, config, error,
                           lastToggleNote>>

FlipStep ==
    /\ pc >= 1
    /\ Install(acceptStep(acceptOrder[pc], CurSt))
    /\ pc' = IF pc = Len(acceptOrder) THEN 0 ELSE pc + 1
    /\ lastCall' = [lastCall EXCEPT
                      !.lookups = @ \cup acceptStep(acceptOrder[pc], CurSt).lookups]
    /\ UNCHANGED <<now, nSpreads, spreadIndex, pageInfo, cover, coverRot, halfRot,
                   scene, config, error, emitted, turn, rt, lastToggleNote>>

----------------------------------------------------------------------------
(* update(_deltaTime): cover bookkeeping first, then flip bookkeeping *)

progressDone_always(t0, duration) == TRUE

progressDone_exact(t0, duration) == now - t0 = duration

progressDone_late(t0, duration) == now - t0 > duration

progressDone_never(t0, duration) == FALSE

\* u >= 1 for u = min(1, (now - t0) / duration)
progressDone(t0, duration) == now - t0 >= duration

coverProgress_alwaysOpening == easeNum(now - cover.t0, CoverDur)

\* a = this.cover.open ? k : 1 - k, as a numerator over CoverDen
coverProgress ==
    LET k == easeNum(now - cover.t0, CoverDur)
    IN  IF cover.open THEN k ELSE CoverDen - k

\* rotation.y of the cover hinges after the cover block
coverRotAfter ==
    IF cover.anim
    THEN [left  |-> lerp(leftClosedRot, leftOpenRot, coverProgress, CoverDen),
          right |-> lerp(rightClosedRot, rightOpenRot, coverProgress, CoverDen)]
    ELSE [left  |-> CoverDen * (IF cover.open THEN leftOpenRot ELSE leftClosedRot),
          right |-> CoverDen * (IF cover.open THEN rightOpenRot ELSE rightClosedRot)]

halfRotAfter_ownProgress ==
    IF cover.anim
    THEN [L |-> lerp(1, 0, easeNum(now - cover.t0, CoverDur), CoverDen),
          R |-> lerp(-1, 0, easeNum(now - cover.t0, CoverDur), CoverDen)]
    ELSE [L |-> IF ~cover.open THEN CoverDen ELSE 0,
          R |-> IF ~cover.open THEN -CoverDen ELSE 0]

\* rotation.y of halfL / halfR after the cover block
\* (halfLClosedRotY = +PI/2, halfRClosedRotY = -PI/2)
halfRotAfter ==
    IF cover.anim
    THEN [L |-> lerp(1, 0, coverProgress, CoverDen),
          R |-> lerp(-1, 0, coverProgress, CoverDen)]
    ELSE [L |-> IF ~cover.open THEN CoverDen ELSE 0,
          R |-> IF ~cover.open THEN -CoverDen ELSE 0]

hideUnders_always(v) ==
    [v EXCEPT !["underLeft"] = FALSE, !["underRight"] = FALSE]

\* both branches: if (!this.flip.active) underLeft/underRight.visible = false
hideUnders(v) ==
    IF ~flip.active
    THEN [v EXCEPT !["underLeft"] = FALSE, !["underRight"] = FALSE]
    ELSE v

coverAfter_opensAtEnd ==
    IF cover.anim /\ progressDone(cover.t0, CoverDur)
    THEN [cover EXCEPT !.anim = FALSE, !.open = ~@]
    ELSE cover

coverAfter_never == cover

coverAfter_strict ==
    IF cover.anim /\ now - cover.t0 > CoverDur
    THEN [cover EXCEPT !.anim = FALSE]
    ELSE cover

\* if (u >= 1) this.cover.anim = false
coverAfter ==
    IF cover.anim /\ progressDone(cover.t0, CoverDur)
    THEN [cover EXCEPT !.anim = FALSE]
    ELSE cover

crossover_early(v, kNum) ==
    SetVis(v, flip.other,
           IF kNum = 0 THEN flip.otherWasVisible ELSE FALSE)

\* this.flip.other.visible = k <= 0.55 ? this.flip.otherWasVisible : false
crossover(v, kNum) ==
    SetVis(v, flip.other,
           IF belowCrossover(kNum, FlipDen) THEN flip.otherWasVisible ELSE FALSE)

pivotAngle_unsigned(kNum) == kNum

\* this.flip.pivot.rotation.y = (this.flip.dir === 1 ? -PI : PI) * k
pivotAngle(kNum) == (IF flip.dir = 1 THEN -1 ELSE 1) * kNum

endFlipVisible_noReveal(v) ==
    LET v1 == SetVis(v, flip.other, FALSE)
        v2 == SetVis(v1, flip.hidden, FALSE)
        v3 == SetVis(v2, flip.under, FALSE)
        v4 == SetVis(v3, flip.other, flip.otherWasVisible)
    IN  SetVis(v4, flip.other, TRUE)

endFlipVisible_noRestore(v) ==
    LET v1 == SetVis(v, flip.other, FALSE)
        v2 == SetVis(v1, flip.hidden, FALSE)
        v3 == SetVis(v2, flip.under, FALSE)
    IN  SetVis(v3, flip.hidden, TRUE)

\* endFlip together with cleanupFlipMeshes: visibility of the four surfaces
endFlipVisible(v) ==
    LET v1 == SetVis(v, flip.other, FALSE)
        v2 == SetVis(v1, flip.hidden, FALSE)
        v3 == SetVis(v2, flip.under, FALSE)
        v4 == SetVis(v3, flip.other, flip.otherWasVisible)
        v5 == SetVis(v4, flip.hidden, TRUE)
    IN  SetVis(v5, flip.other, TRUE)

cleanupChildren_backOnly(c) ==
    IF flip.pivot = "null" THEN c
    ELSE [c EXCEPT ![flip.pivot] = @ \ {flip.backMesh}]

cleanupChildren_frontOnly(c) ==
    IF flip.pivot = "null" THEN c
    ELSE [c EXCEPT ![flip.pivot] = @ \ {flip.frontMesh}]

\* cleanupFlipMeshes: this.flip.pivot?.remove(frontMesh / backMesh)
cleanupChildren(c) ==
    IF flip.pivot = "null" THEN c
    ELSE [c EXCEPT ![flip.pivot] = @ \ {flip.frontMesh, flip.backMesh}]

\* the fields of this.flip after endFlip and cleanupFlipMeshes (t0 is kept)
endFlipState ==
    [active |-> FALSE, dir |-> 0, t0 |-> flip.t0, pivot |-> "null",
     hidden |-> "null", frontMesh |-> NoMesh, backMesh |-> NoMesh,
     under |-> "null", other |-> "null", otherWasVisible |-> TRUE]

\* what update does to the book; _deltaTime is not read
UpdateProgram ==
    LET flipRuns  == flip.active /\ flip.pivot # "null"
        kNum      == easeNum(now - flip.t0, FlipDur)
        flipEnds  == flipRuns /\ progressDone(flip.t0, FlipDur)
        coverEnds == cover.anim /\ progressDone(cover.t0, CoverDur)
        v0        == hideUnders(visible)
        v1        == IF flipRuns THEN crossover(v0, kNum) ELSE v0
        newIndex  == setSpreadIndex(spreadIndex + flip.dir, nSpreads)
    IN  /\ cover' = coverAfter
        /\ coverRot' = coverRotAfter
        /\ halfRot' = halfRotAfter
        /\ pivotRot' = IF flipRuns
                       THEN [pivotRot EXCEPT ![flip.pivot] = pivotAngle(kNum)]
                       ELSE pivotRot
        /\ IF flipEnds
           THEN /\ visible' = endFlipVisible(v1)
                /\ children' = cleanupChildren(children)
                /\ spreadIndex' = newIndex
                /\ matMap' = setSpreadMaps(matMap, newIndex)
                /\ pageInfo' = <<newIndex + 1, nSpreads>>
                /\ emitted' = setSpreadEmits(newIndex, nSpreads)
                /\ flip' = endFlipState
           ELSE /\ visible' = v1
                /\ emitted' = << >>
                /\ UNCHANGED <<children, spreadIndex, matMap, pageInfo, flip>>
        /\ rt' = IF coverEnds /\ rt.count >= 1
                 THEN [rt EXCEPT !.done = TRUE]
                 ELSE rt
        /\ UNCHANGED <<now, nSpreads, flippedCache, cloned, scene, ctlVars,
                       lastToggleNote>>

\* this update ends the active turn: u >= 1 in the flip block
updateEndsFlip ==
    flip.active /\ flip.pivot # "null" /\ progressDone(flip.t0, FlipDur)

Update ==
    /\ UpdateProgram
    /\ lastCall' = Call("update", 0, TRUE)
    /\ turn' = IF updateEndsFlip THEN NoTurn ELSE turn

\* frame times handed to update by a host, in ticks: none, one tick, and
\* more than any animation lasts
DeltaTimes == {0, 1, CoverDur + FlipDur}

\* update(_deltaTime) with the argument on record, and with a note of
\* whether the turn, active or just completed, had an update before this one
UpdateFrame(deltaTime) ==
    /\ UpdateProgram
    /\ lastCall' = Call("update", deltaTime, TRUE)
    /\ turn' = IF updateEndsFlip
               THEN [NoTurn EXCEPT !.updated = turn.updated]
               ELSE IF flip.active
                    THEN [turn EXCEPT !.updated = TRUE]
                    ELSE turn

----------------------------------------------------------------------------
(* update one block at a time: the state between the cover block and the    *)
(* flip block.  `first' says whether the block opens the call.              *)

\* "Animacion de portada": the if / else on this.cover.anim
CoverBlock(first) ==
    LET coverEnds == cover.anim /\ progressDone(cover.t0, CoverDur)
    IN  /\ cover' = coverAfter
        /\ coverRot' = coverRotAfter
        /\ halfRot' = halfRotAfter
        /\ visible' = hideUnders(visible)
        /\ emitted' = IF first THEN << >> ELSE emitted
        /\ rt' = IF coverEnds /\ rt.count >= 1
                 THEN [rt EXCEPT !.done = TRUE]
                 ELSE rt
        /\ UNCHANGED <<pivotRot, children, spreadIndex, matMap, pageInfo, flip,
                       turn>>

\* "Animacion de flip": if (this.flip.active && this.flip.pivot)
FlipBlock(first) ==
    LET flipRuns == flip.active /\ flip.pivot # "null"
        kNum     == easeNum(now - flip.t0, FlipDur)
        flipEnds == flipRuns /\ progressDone(flip.t0, FlipDur)
        v1       == IF flipRuns THEN crossover(visible, kNum) ELSE visible
        newIndex == setSpreadIndex(spreadIndex + flip.dir, nSpreads)
        before   == IF first THEN << >> ELSE emitted
    IN  /\ pivotRot' = IF flipRuns
                       THEN [pivotRot EXCEPT ![flip.pivot] = pivotAngle(kNum)]
                       ELSE pivotRot
        /\ IF flipEnds
           THEN /\ visible' = endFlipVisible(v1)
                /\ children' = cleanupChildren(children)
                /\ spreadIndex' = newIndex
                /\ matMap' = setSpreadMaps(matMap, newIndex)
                /\ pageInfo' = <<newIndex + 1, nSpreads>>
                /\ emitted' = before \o setSpreadEmits(newIndex, nSpreads)
                /\ flip' = endFlipState
                /\ turn' = NoTurn
           ELSE /\ visible' = v1
                /\ emitted' = before
                /\ UNCHANGED <<children, spreadIndex, matMap, pageInfo, flip, turn>>
        /\ UNCHANGED <<cover, coverRot, halfRot, rt>>

\* the two blocks of update in program order
updateOrder == <<"cover", "flip">>

UpdateBlock(name, first) ==
    IF name = "cover" THEN CoverBlock(first) ELSE FlipBlock(first)

UpdateBegin ==
    /\ pc = 0
    /\ lastCall' = Call("update", 0, TRUE)
    /\ UpdateBlock(updateOrder[1], TRUE)
    /\ pc' = -1
    /\ UNCHANGED <<now, nSpreads, flippedCache, cloned, scene, config, error,
                   lastToggleNote>>

UpdateEnd ==
    /\ pc = -1
    /\ UpdateBlock(updateOrder[2], FALSE)
    /\ pc' = 0
    /\ UNCHANGED <<now, nSpreads, flippedCache, cloned, scene, config, error,
                   lastCall, lastToggleNote>>

----------------------------------------------------------------------------
(* The specification: any interleaving of calls and clock advances *)

Next ==
    \/ Tick
    \/ ToggleCover
    \/ \E dir \in Dirs : FlipPage(dir)
    \/ Update

Spec == Init /\ [][Next]_vars

StepsNext ==
    \/ pc = 0 /\ Tick
    \/ pc = 0 /\ ToggleCover
    \/ \E dir \in Dirs : FlipBegin(dir)
    \/ FlipStep
    \/ UpdateBegin
    \/ UpdateEnd

FramesNext ==
    \/ Tick
    \/ ToggleCover
    \/ \E dir \in Dirs : FlipPage(dir)
    \/ \E deltaTime \in DeltaTimes : UpdateFrame(deltaTime)

AdjacentNext ==
    \/ Tick
    \/ ToggleCover
    \/ \E dir \in {1, -1} : FlipPage(dir)
    \/ Update

\* the same book with a host that asks only for flipPage(+1) and flipPage(-1),
\* as the pointer and key handlers do
SpecAdjacent == Init /\ [][AdjacentNext]_vars

\* the same book, with the host's frame time recorded at each update
SpecFrames == Init /\ [][FramesNext]_vars

\* the same book, with the inside of flipPage and of update visible
SpecSteps == Init /\ [][StepsNext]_vars

----------------------------------------------------------------------------
(* The completing update with the state in which the host's onSpreadChange  *)
(* runs (called by setSpread from inside endFlip) visible: pc = -2 there.   *)

cleanupFlipState_keepsOther ==
    [flip EXCEPT !.frontMesh = NoMesh, !.backMesh = NoMesh, !.under = "null",
                 !.otherWasVisible = TRUE]

\* the fields of this.flip when cleanupFlipMeshes returns
cleanupFlipState ==
    [flip EXCEPT !.frontMesh = NoMesh, !.backMesh = NoMesh, !.under = "null",
                 !.other = "null", !.otherWasVisible = TRUE]

\* visibilities when setSpread notifies: endFlip has hidden other and hidden,
\* cleanupFlipMeshes has hidden under and put other back as recorded
visibleAtNotify(v) ==
    LET v1 == SetVis(v, flip.other, FALSE)
        v2 == SetVis(v1, flip.hidden, FALSE)
        v3 == SetVis(v2, flip.under, FALSE)
    IN  SetVis(v3, flip.other, flip.otherWasVisible)

\* the local otherToRestore of endFlip: the static page opposite the hidden one
otherToRestore == IF flip.hidden = "rightPage" THEN "leftPage" ELSE "rightPage"

\* update up to the onSpreadChange call of a completing turn
UpdateNotify ==
    LET kNum     == easeNum(now - flip.t0, FlipDur)
        newIndex == setSpreadIndex(spreadIndex + flip.dir, nSpreads)
        coverEnds == cover.anim /\ progressDone(cover.t0, CoverDur)
    IN  /\ pc = 0
        /\ flip.active /\ flip.pivot # "null" /\ progressDone(flip.t0, FlipDur)
        /\ lastCall' = Call("update", 0, TRUE)
        /\ cover' = coverAfter
        /\ coverRot' = coverRotAfter
        /\ halfRot' = halfRotAfter
        /\ pivotRot' = [pivotRot EXCEPT ![flip.pivot] = pivotAngle(kNum)]
        /\ visible' = visibleAtNotify(crossover(hideUnders(visible), kNum))
        /\ children' = cleanupChildren(children)
        /\ flip' = cleanupFlipState
        /\ spreadIndex' = newIndex
        /\ matMap' = setSpreadMaps(matMap, newIndex)
        /\ pageInfo' = <<newIndex + 1, nSpreads>>
        /\ emitted' = setSpreadEmits(newIndex, nSpreads)
        /\ rt' = IF coverEnds /\ rt.count >= 1
                 THEN [rt EXCEPT !.done = TRUE]
                 ELSE rt
        /\ pc' = -2
        /\ UNCHANGED <<now, nSpreads, flippedCache, cloned, scene, config, error,
                       turn, lastToggleNote>>

\* the rest of endFlip, after the callback has returned
NotifyReturn ==
    /\ pc = -2
    /\ visible' = SetVis(SetVis(visible, flip.hidden, TRUE), otherToRestore, TRUE)
    /\ flip' = [flip EXCEPT !.active = FALSE, !.dir = 0, !.pivot = "null",
                            !.hidden = "null"]
    /\ turn' = NoTurn
    /\ pc' = 0
    /\ UNCHANGED <<now, nSpreads, spreadIndex, pageInfo, cover, coverRot,
                   halfRot, matMap, pivotRot, children, flippedCache, cloned,
                   scene, config, error, emitted, lastCall, rt, lastToggleNote>>

\* an update that completes no turn
UpdateQuiet ==
    /\ ~updateEndsFlip
    /\ Update

NotifyNext ==
    \/ pc = 0 /\ Tick
    \/ pc = 0 /\ ToggleCover
    \/ \E dir \in Dirs : pc = 0 /\ FlipPage(dir)
    \/ pc = 0 /\ UpdateQuiet
    \/ UpdateNotify
    \/ NotifyReturn

SpecNotify == Init /\ [][NotifyNext]_vars

\* The host loop (requestAnimationFrame) calls update on every frame and the
\* clock keeps advancing
SpecFair == Spec /\ WF_vars(Tick) /\ WF_vars(Update)

----------------------------------------------------------------------------
(* The three-spread scenario: only forward turns, from spread 0 *)

ScenarioInit == Constructed(3, [given |-> TRUE, value |-> 0])

ScenarioNext ==
    \/ Tick
    \/ FlipPage(1)
    \/ Update

SpecScenario == ScenarioInit /\ [][ScenarioNext]_vars

----------------------------------------------------------------------------
(* Properties *)

Transients == children["pivotL"] \cup children["pivotR"]

\* a flipPage call whose direction leads out of the spread list
FlipPastEnd ==
    \/ lastCall'.dir = 1 /\ spreadIndex = nSpreads - 1
    \/ lastCall'.dir = -1 /\ spreadIndex = 0

\* C1: the current spread index is always within 0 .. N-1, for every
\* construction (any initial index) and after any sequence of calls.
C1_IndexInRange == spreadIndex >= 0 /\ spreadIndex <= nSpreads - 1

\* a turn has just been committed on the last spread of a book of 2 or more
C1_Witness ==
    /\ lastCall.name = "update"
    /\ emitted # << >>
    /\ nSpreads >= 2
    /\ spreadIndex = nSpreads - 1

\* C2: a page turn and a cover animation are never in flight together, and
\* while a turn is active the cover is open and not animating.
C2_MutualExclusion ==
    /\ ~(flip.active /\ cover.anim)
    /\ flip.active => (cover.open /\ ~cover.anim)

\* toggleCover was called during an active turn
C2_Witness == flip.active /\ lastCall.name = "toggleCover"

\* C3: a flipPage call made while a turn is active, whatever its direction,
\* changes nothing: the turn keeps its direction, start time, hinge, hidden
\* page and transient surfaces, and exactly one turn is active.
C3_NoOverlappingTurns ==
    [][(lastCall'.name = "flipPage" /\ flip.active)
        => /\ UNCHANGED progVars
           /\ flip'.active
           /\ flip'.dir = flip.dir /\ flip'.t0 = flip.t0
           /\ flip'.pivot = flip.pivot /\ flip'.hidden = flip.hidden
           /\ Transients' = {flip.frontMesh, flip.backMesh}
           /\ Cardinality(Transients') = 2]_vars

\* a flipPage in the opposite direction was rejected during a forward turn
C3_Witness ==
    /\ lastCall.name = "flipPage" /\ ~lastCall.accepted
    /\ flip.active /\ flip.dir = 1 /\ lastCall.dir = -1

\* C4: flipPage(+1) on the last spread and flipPage(-1) on the first are
\* no-ops: the whole state is unchanged, no turn starts, no transient
\* surface is created and no notification is emitted.
C4_OutOfBoundsNoOp ==
    [][(lastCall'.name = "flipPage" /\ FlipPastEnd)
        => /\ UNCHANGED progVars
           /\ ~lastCall'.accepted
           /\ (~flip.active => ~flip'.active)
           /\ Transients' = Transients
           /\ emitted' = << >>]_vars

\* flipPage(+1) was rejected on the last spread with the book open and idle
C4_Witness ==
    /\ lastCall = Call("flipPage", 1, FALSE)
    /\ spreadIndex = nSpreads - 1
    /\ cover.open /\ ~cover.anim /\ ~flip.active

\* C5: flipPage is a no-op whenever the cover is closed or a cover animation
\* is in flight, the opening animation (cover.open already true) included.
C5_CoverBlocksFlip ==
    [][(lastCall'.name = "flipPage" /\ (~cover.open \/ cover.anim))
        => /\ UNCHANGED progVars
           /\ ~lastCall'.accepted
           /\ ~flip'.active
           /\ emitted' = << >>]_vars

\* an in-bounds flipPage(+1) was rejected during the opening animation
C5_Witness ==
    /\ lastCall = Call("flipPage", 1, FALSE)
    /\ cover.open /\ cover.anim
    /\ spreadIndex < nSpreads - 1

\* C6: toggleCover is rejected (cover state unchanged, nothing emitted) when
\* a turn is active or a cover animation is in flight; otherwise it flips
\* isOpen, sets the animating flag and records the current time.
C6_ToggleCoverContract ==
    [][lastCall'.name = "toggleCover"
        => IF flip.active \/ cover.anim
           THEN /\ cover' = cover
                /\ UNCHANGED progVars
                /\ emitted' = << >>
           ELSE /\ cover'.open = ~cover.open
                /\ cover'.anim
                /\ cover'.t0 = now]_vars

\* toggleCover was rejected while a cover animation was in flight
C6_Witness ==
    /\ lastCall = Call("toggleCover", 0, FALSE)
    /\ cover.anim /\ now > cover.t0

\* C7: an update made FlipDur or more after a turn of direction d was
\* accepted at index i commits index i + d, ends the turn, removes both
\* transient surfaces, hides the reveal surface and shows the hidden page.
C7_TurnCompletion ==
    [][(lastCall'.name = "update" /\ flip.active /\ now - turn.t0 >= FlipDur)
        => /\ spreadIndex' = turn.from + turn.dir
           /\ ~flip'.active
           /\ Transients' = {}
           /\ flip'.frontMesh = NoMesh /\ flip'.backMesh = NoMesh
           /\ ~visible'[flip.under]
           /\ visible'[flip.hidden]]_vars

\* an update has just completed a turn made through the left hinge, which
\* rests at a half-turn, and the book is back on its first spread
C7_Witness ==
    /\ lastCall.name = "update"
    /\ emitted # << >>
    /\ ~flip.active
    /\ pivotRot["pivotL"] = FlipDen
    /\ spreadIndex = 0

\* the update being made completes the active turn
CompletingUpdate ==
    lastCall'.name = "update" /\ flip.active /\ now - flip.t0 >= FlipDur

\* C8: with 3 spreads, index 0 and the cover open, each flipPage(+1) followed
\* by an update after the flip duration advances the index by one with no turn
\* left active (0 -> 1 -> 2: the index equals the number of turns accepted and
\* completed); on index 2 flipPage(+1) is a no-op and the index stays 2.
C8_ThreeSpreadScenario ==
    /\ [](spreadIndex = Cardinality(DOMAIN flippedCache)
                          - (IF flip.active THEN 1 ELSE 0))
    /\ [](spreadIndex = 2 => ~flip.active)
    /\ [][/\ CompletingUpdate
             => (spreadIndex' = spreadIndex + 1 /\ ~flip'.active)
          /\ spreadIndex' # spreadIndex => CompletingUpdate
          /\ (lastCall'.name = "flipPage" /\ spreadIndex = 2)
             => (UNCHANGED progVars /\ ~lastCall'.accepted)
          /\ spreadIndex = 2 => spreadIndex' = 2]_vars

\* after two completed turns the third flipPage(+1) was rejected on index 2
C8_Witness ==
    /\ lastCall = Call("flipPage", 1, FALSE)
    /\ spreadIndex = 2
    /\ ~flip.active
    /\ DOMAIN flippedCache = {CacheKey(1, "left"), CacheKey(2, "left")}

\* C9: from an idle state, toggleCover, an update after the full cover
\* duration, toggleCover and another such update bring back the original
\* isCoverOpen(), cover hinge angles and page-half fold angles, with no
\* animation in flight and the same spread index.
C9_TwoToggleRoundTrip ==
    (rt.count = 2 /\ rt.done)
    => /\ cover.open = rt.prev2.open
       /\ coverRot = rt.prev2.coverRot
       /\ halfRot = rt.prev2.halfRot
       /\ ~cover.anim
       /\ ~flip.active
       /\ spreadIndex = rt.prev2.index

\* a round trip that started from the closed book has been completed
C9_Witness ==
    /\ rt.count = 2 /\ rt.done
    /\ ~rt.prev2.open
    /\ lastCall.name = "update"

\* C10: after toggleCover on the open, idle book, an update at half the cover
\* duration leaves no turn active and the cover hinges strictly between their
\* closed and open angles; an update at the full duration (or later) leaves
\* the cover closed and its animation ended.
C10_HalfwayThenClosed ==
    /\ (lastCall.name = "update" /\ rt.count >= 1 /\ ~rt.done /\ rt.prev.open
            /\ 2 * (now - cover.t0) = CoverDur)
       => /\ ~flip.active
          /\ cover.anim
          /\ coverRot.left > CoverDen * leftOpenRot
          /\ coverRot.left < CoverDen * leftClosedRot
          /\ coverRot.right < CoverDen * rightOpenRot
          /\ coverRot.right > CoverDen * rightClosedRot
    /\ (lastCall.name = "update" /\ rt.count >= 1 /\ rt.prev.open
            /\ now - cover.t0 >= CoverDur)
       => /\ rt.done
          /\ ~cover.open
          /\ ~cover.anim

\* the update at half the cover duration of a closing animation was made
C10_Witness ==
    /\ lastCall.name = "update"
    /\ rt.count >= 1 /\ ~rt.done /\ rt.prev.open
    /\ 2 * (now - cover.t0) = CoverDur
    /\ coverRot.left = CoverDen \div 2


\* the cache key and the source texture of the back face of a turn to spread n
BackKey(dir, n) == CacheKey(n, IF dir = 1 THEN "left" ELSE "right")

BackSource(dir, n) == SpreadTex(n, IF dir = 1 THEN "left" ELSE "right")

\* C11: the flip cache memoizes: a request for a key already present returns
\* the very handle stored (same clone), every stored handle is the mirrored
\* clone of its key's texture, each key's clone is created at most once (as
\* many clones exist as keys), and no entry is ever evicted or replaced.
C11_FlipCacheMemoization ==
    /\ [](/\ cloned = Cardinality(DOMAIN flippedCache)
          /\ \A k \in DOMAIN flippedCache :
                /\ flippedCache[k].mirrored
                /\ flippedCache[k].clone \in 1 .. cloned
                /\ \A j \in DOMAIN flippedCache :
                      flippedCache[j].clone = flippedCache[k].clone => j = k
          /\ flip.active =>
                flip.backMesh.map
                    = flippedCache[BackKey(flip.dir, spreadIndex + flip.dir)])
    /\ [][/\ \A k \in DOMAIN flippedCache :
                k \in DOMAIN flippedCache' /\ flippedCache'[k] = flippedCache[k]
          /\ (lastCall'.name = "flipPage" /\ lastCall'.accepted
                /\ BackKey(lastCall'.dir, spreadIndex + lastCall'.dir)
                      \in DOMAIN flippedCache)
             => /\ flip'.backMesh.map
                     = flippedCache[BackKey(lastCall'.dir, spreadIndex + lastCall'.dir)]
                /\ cloned' = cloned]_vars

\* a spread is approached forward for the second time, after it was also
\* approached backward, and the turning sheet carries the first clone made
C11_Witness ==
    /\ flip.active /\ flip.dir = 1
    /\ lastCall.name = "flipPage" /\ lastCall.dir = 1 /\ lastCall.accepted
    /\ flip.backMesh.map.clone = 1
    /\ cloned >= 2
    /\ CacheKey(spreadIndex + 1, "right") \in DOMAIN flippedCache


\* the spread list given to the constructor is empty or lacks a texture
InvalidSpreads ==
    \/ Len(config.spreads) = 0
    \/ \E k \in 1 .. Len(config.spreads) :
          ~config.spreads[k].left \/ ~config.spreads[k].right

\* C12: constructing with an empty spread list, or with a spread lacking its
\* left or right texture, throws: no field of a Book is set, no spread-changed
\* notification is emitted and no status text is written.
C12_InvalidConfigIsFatal ==
    [][(lastCall'.name = "constructor" /\ InvalidSpreads)
        => /\ error' # "none"
           /\ ~lastCall'.accepted
           /\ UNCHANGED progVars
           /\ nSpreads' = 0 /\ scene' = EmptyScene
           /\ emitted' = << >>
           /\ pageInfo' = <<0, 0>>]_vars

\* the constructor threw on a two-spread list whose first spread is complete
C12_Witness ==
    /\ lastCall = Call("constructor", 0, FALSE)
    /\ error = "cada spread debe tener left y right"
    /\ Len(config.spreads) = 2
    /\ config.spreads[1].left /\ config.spreads[1].right

\* the initial index of the config clamped into 0 .. N-1, 0 when left out
ExpectedInitialIndex ==
    LET n == Len(config.spreads)
        o == config.initialSpreadIndex
    IN  IF ~o.given THEN 0
        ELSE IF o.value < 0 THEN 0
        ELSE IF o.value > n - 1 THEN n - 1
        ELSE o.value

\* C13: a construction with a valid spread list never throws, whatever the
\* initial index; right after it the cover is open, no cover animation and no
\* turn are active, both reveal surfaces are hidden and the index is the
\* initial index clamped into 0 .. N-1 (0 when none is supplied).
C13_InitialState ==
    [][(lastCall'.name = "constructor" /\ ~InvalidSpreads)
        => /\ error' = "none"
           /\ lastCall'.accepted
           /\ cover'.open /\ ~cover'.anim
           /\ ~flip'.active
           /\ ~visible'["underLeft"] /\ ~visible'["underRight"]
           /\ spreadIndex' = ExpectedInitialIndex]_vars

\* a book of two or more spreads was built from an initial index past the end
C13_Witness ==
    /\ lastCall = Call("constructor", 0, TRUE)
    /\ Len(config.spreads) >= 2
    /\ config.initialSpreadIndex.given
    /\ config.initialSpreadIndex.value > Len(config.spreads) - 1
    /\ spreadIndex = Len(config.spreads) - 1

\* C14 as stated: in every reachable state the animating flag is true only
\* while the clock is within [animStartTime, animStartTime + coverDuration).
C14_AnimOnlyInsideInterval ==
    cover.anim => (cover.t0 <= now /\ now < cover.t0 + CoverDur)

\* C14 amended: the animating flag is true only from animStartTime on, and in
\* every state that follows an update call only while the clock is before
\* animStartTime + coverDuration (between updates it stays true until the next
\* update clears it); an animation in flight is never restarted or reversed.
C14_AnimInsideIntervalAfterUpdate ==
    /\ [](cover.anim => cover.t0 <= now)
    /\ []((lastCall.name = "update" /\ cover.anim) => now < cover.t0 + CoverDur)
    /\ [][(cover.anim /\ cover'.anim)
            => (cover'.t0 = cover.t0 /\ cover'.open = cover.open)]_vars

\* an update was made in the last tick of a cover animation, which goes on
C14_Witness ==
    /\ lastCall.name = "update"
    /\ cover.anim
    /\ now = cover.t0 + CoverDur - 1

\* C15: an accepted turn is not cancelled: while it is active no flipPage or
\* toggleCover call changes its direction, start time or target or ends it; it
\* ends only in an update made FlipDur or more after acceptance, which commits
\* the target index; and with update called and the clock advancing fairly,
\* every accepted turn (whose end the modelled clock can reach) leads to the
\* idle state, which by the above is entered with the target index committed.
C15_TurnAlwaysCompletes ==
    /\ [][(flip.active /\ lastCall'.name \in {"flipPage", "toggleCover"})
            => (flip' = flip /\ spreadIndex' = spreadIndex /\ turn' = turn)]_vars
    /\ [][(flip.active /\ ~flip'.active)
            => /\ lastCall'.name = "update"
               /\ now - turn.t0 >= FlipDur
               /\ spreadIndex' = turn.from + turn.dir]_vars
    /\ [][(~flip.active /\ flip'.active)
            => (lastCall'.name = "flipPage" /\ lastCall'.accepted)]_vars
    /\ (flip.active /\ turn.t0 + FlipDur <= MaxTime) ~> ~flip.active

\* toggleCover was rejected during a turn that was accepted at time 0
C15_Witness ==
    /\ flip.active /\ turn.t0 = 0
    /\ lastCall = Call("toggleCover", 0, FALSE)
    /\ now >= FlipDur

\* C16: after an accepted toggleCover the animating flag is cleared by the
\* first update made CoverDur or more after it and by nothing else; with
\* update called and the clock advancing fairly it is eventually cleared; once
\* cleared, toggleCover is accepted again and so is an in-bounds flipPage when
\* the cover is open.
C16_CoverAnimationTerminates ==
    /\ [][(lastCall'.name = "update" /\ cover.anim)
            => (cover'.anim <=> now - cover.t0 < CoverDur)]_vars
    /\ [][(cover.anim /\ ~cover'.anim) => lastCall'.name = "update"]_vars
    /\ [][(lastCall'.name = "toggleCover" /\ ~cover.anim /\ ~flip.active)
            => (lastCall'.accepted /\ cover'.anim)]_vars
    /\ [][(lastCall'.name = "flipPage" /\ ~cover.anim /\ ~flip.active /\ cover.open
                /\ spreadIndex + lastCall'.dir \in 0 .. nSpreads - 1)
            => (lastCall'.accepted /\ flip'.active)]_vars
    /\ (cover.anim /\ cover.t0 + CoverDur <= MaxTime) ~> ~cover.anim

\* a turn was accepted after the opening animation of a reopened book ended
C16_Witness ==
    /\ lastCall.name = "flipPage" /\ lastCall.accepted
    /\ flip.active
    /\ cover.open /\ ~cover.anim
    /\ cover.t0 >= CoverDur


NoSpreadChangeIn(seq) == \A k \in 1 .. Len(seq) : seq[k].type # "spreadChange"

NoCoverToggleIn(seq) == \A k \in 1 .. Len(seq) : seq[k].type # "coverToggle"

\* C17: the spread-changed notification is emitted exactly once by the
\* construction and exactly once by each update that completes a turn, with
\* the committed index and the spread count; no other call emits it.
C17_SpreadChangedNotification ==
    /\ [](lastCall.name = "constructor"
            => emitted = <<SpreadChange(spreadIndex, nSpreads)>>)
    /\ [][IF CompletingUpdate
          THEN /\ emitted' = <<SpreadChange(spreadIndex', nSpreads)>>
               /\ spreadIndex' = turn.from + turn.dir
          ELSE NoSpreadChangeIn(emitted')]_vars

\* the update that completed a turn to the middle spread of three notified 1 / 3
C17_Witness ==
    /\ lastCall.name = "update"
    /\ nSpreads = 3 /\ spreadIndex = 1
    /\ emitted = <<SpreadChange(1, 3)>>

\* C18: an accepted toggleCover emits exactly one cover-toggled notification
\* with the new isCoverOpen(), at acceptance; a rejected one and every other
\* call emit none; each notification carries the opposite of the one before.
C18_CoverToggledNotification ==
    /\ [][lastCall'.name = "toggleCover"
            => IF ~flip.active /\ ~cover.anim
               THEN /\ emitted' = <<CoverToggle(cover'.open)>>
                    /\ cover'.open = ~cover.open
                    /\ cover'.anim
               ELSE emitted' = << >>]_vars
    /\ [][lastCall'.name # "toggleCover" => NoCoverToggleIn(emitted')]_vars
    /\ [][\A k \in 1 .. Len(emitted') :
            emitted'[k].type = "coverToggle"
            => LET v == IF emitted'[k].open THEN "open" ELSE "closed"
               IN  lastToggleNote # v /\ lastToggleNote' = v]_vars

\* the book was closed and is being reopened: the second notification says open
C18_Witness ==
    /\ lastCall = Call("toggleCover", 0, TRUE)
    /\ emitted = <<CoverToggle(TRUE)>>
    /\ lastToggleNote = "open"
    /\ cover.anim

\* the static nodes that have the node among their children
ParentsOf(node) == {p \in Nodes : node \in scene[p]}

\* C19: in every state after construction the left flip hinge is a child of
\* the left half and the right flip hinge a child of the right half, and every
\* node but the root has exactly one parent (no hinge is also under the root).
C19_RigInvariant ==
    /\ "pivotL" \in scene["halfL"]
    /\ "pivotR" \in scene["halfR"]
    /\ \A node \in Nodes \ {"group"} : Cardinality(ParentsOf(node)) = 1
    /\ ParentsOf("group") = {}

\* the rig after a turn through the left hinge has been completed
C19_Witness ==
    /\ lastCall.name = "update"
    /\ ~flip.active
    /\ pivotRot["pivotL"] = FlipDen
    /\ ParentsOf("pivotL") = {"halfL"}

----------------------------------------------------------------------------
(* C21 *)

\* the state between the two blocks of one update call
BetweenBlocks == pc = -1

\* the call that has just returned was update
AfterUpdate == lastCall.name = "update" /\ pc = 0

BothUndersHidden(v) == ~v["underLeft"] /\ ~v["underRight"]

\* C21 as stated: after ANY update call made during an active turn the
\* turn's reveal surface is still visible.  The update that completes the
\* turn is made during an active turn and hides the reveal surface.
C21_RevealVisibleAfterAnyUpdate ==
    [][(pc = -1 /\ pc' = 0 /\ flip.active) => visible'[flip.under]]_vars

\* C21 (amended): within one update the cover block runs first and touches
\* no turn state, the flip block runs second and touches no cover state; the
\* cover block hides both reveal surfaces when no turn is active and leaves
\* every visibility alone when one is; after an update that leaves the turn
\* active the turn's reveal surface is visible, and after an update that
\* leaves no turn active (the completing update included) both reveal
\* surfaces are hidden.
C21_RevealGuard ==
    /\ [](BetweenBlocks =>
            /\ coverRot = coverRotAfter /\ halfRot = halfRotAfter
            /\ cover.anim => now - cover.t0 < CoverDur)
    /\ [][pc' = -1 =>
            /\ flip' = flip /\ pivotRot' = pivotRot /\ children' = children
            /\ spreadIndex' = spreadIndex
            /\ flip.active => visible' = visible
            /\ ~flip.active => BothUndersHidden(visible')]_vars
    /\ [][pc = -1 =>
            /\ cover' = cover /\ coverRot' = coverRot /\ halfRot' = halfRot
            /\ flip.active /\ flip'.active => visible'[flip.under]]_vars
    /\ [](AfterUpdate =>
            /\ flip.active => visible[flip.under]
            /\ ~flip.active => BothUndersHidden(visible))

\* an update made some time after acceptance has returned with the turn still
\* active and its reveal surface showing
C21_Witness ==
    /\ AfterUpdate /\ flip.active /\ flip.under # "null"
    /\ visible[flip.under]
    /\ now > flip.t0

----------------------------------------------------------------------------
(* C22 *)

\* this step is an accepted flipPage(dir)
AcceptedFlip(dir) ==
    lastCall'.name = "flipPage" /\ lastCall'.dir = dir /\ lastCall'.accepted

\* what an accepted call selects, as seen right after it
Selects(pivot, hidden, other, under) ==
    /\ flip'.active /\ flip'.pivot = pivot
    /\ flip'.hidden = hidden /\ ~visible'[hidden]
    /\ flip'.other = other /\ flip'.otherWasVisible = visible[other]
    /\ visible'[other] = visible[other]
    /\ flip'.under = under /\ visible'[under]

\* C22: an accepted flipPage(+1) turns about the right hinge, hides the right
\* static page, records the left static page (and its visibility) as the
\* counterpart and shows the right reveal surface; an accepted flipPage(-1)
\* does the same with left and right exchanged.
C22_DirectionSelection ==
    [][/\ AcceptedFlip(1) =>
            Selects("pivotR", "rightPage", "leftPage", "underRight")
       /\ AcceptedFlip(-1) =>
            Selects("pivotL", "leftPage", "rightPage", "underLeft")]_vars

\* a backward turn has just been accepted from a spread past the first, and
\* the back texture of an earlier forward turn is in the cache
C22_Witness ==
    /\ lastCall.name = "flipPage" /\ lastCall.dir = -1 /\ lastCall.accepted
    /\ flip.pivot = "pivotL" /\ ~visible["leftPage"] /\ visible["underLeft"]
    /\ \E n \in 0 .. MaxSpreads : CacheKey(n, "left") \in DOMAIN flippedCache

----------------------------------------------------------------------------
(* C23 *)

\* the side of the current spread that the turning sheet lifts off, and the
\* side of the next spread that shows on its back
DepartingSide(dir) == IF dir = 1 THEN "right" ELSE "left"

ArrivingSide(dir) == IF dir = 1 THEN "left" ELSE "right"

\* C23: during the whole of a turn accepted at index i towards n = i + dir,
\* the front transient surface is front-sided and carries the very texture
\* of the departing static page (spreads[i].right forward, spreads[i].left
\* backward), unmirrored; the back transient surface is back-sided and
\* carries the cache's mirrored duplicate of the opposite side of spread n
\* (spreads[n].left forward, spreads[n].right backward).
C23_TurningSheetTextures ==
    flip.active =>
        LET i     == turn.from
            n     == turn.from + turn.dir
            front == flip.frontMesh
            back  == flip.backMesh
            key   == CacheKey(n, ArrivingSide(turn.dir))
        IN  /\ spreadIndex = i /\ flip.dir = turn.dir
            /\ front.side = "FrontSide"
            /\ front.map = SpreadTex(i, DepartingSide(turn.dir))
            /\ ~front.map.mirrored
            /\ back.side = "BackSide"
            /\ key \in DOMAIN flippedCache /\ back.map = flippedCache[key]
            /\ back.map.mirrored /\ back.map.clone >= 1
            /\ back.map.spread = n /\ back.map.side = ArrivingSide(turn.dir)

\* a backward turn is under way, an update has run since it was accepted,
\* and its back face carries a duplicate made after the first one
C23_Witness ==
    /\ flip.active /\ turn.dir = -1
    /\ lastCall.name = "update" /\ now > flip.t0
    /\ flip.frontMesh.map = SpreadTex(spreadIndex, "left")
    /\ flip.backMesh.map.clone >= 2

----------------------------------------------------------------------------
(* C24 *)

\* eased progress of the active turn at the current clock, over FlipDen
TurnK == easeNum(now - flip.t0, FlipDur)

\* C24: after each update that leaves the turn active, the counterpart static
\* page has its recorded visibility if the eased progress k is at most 0.55
\* and is hidden if k is above 0.55; while the turn stays active a hidden
\* counterpart is never shown again; and a hidden counterpart becomes visible
\* only in the update that completes the turn.
C24_CrossoverRule ==
    /\ []((AfterUpdate /\ flip.active) =>
            visible[flip.other]
                = (IF 100 * TurnK <= 55 * FlipDen
                   THEN flip.otherWasVisible ELSE FALSE))
    /\ [][(flip.active /\ flip'.active /\ ~visible[flip.other])
              => ~visible'[flip.other]]_vars
    /\ [][(flip.active /\ ~visible[flip.other] /\ visible'[flip.other])
              => CompletingUpdate /\ ~flip'.active]_vars

\* an update has left the turn active with the counterpart hidden: the eased
\* progress is past the crossover and the turn is not yet complete
C24_Witness ==
    /\ AfterUpdate /\ flip.active
    /\ 100 * TurnK > 55 * FlipDen /\ now - flip.t0 < FlipDur
    /\ flip.otherWasVisible /\ ~visible[flip.other]

----------------------------------------------------------------------------
(* C25 *)

\* C25: the value recorded for the counterpart static page is its visibility
\* at the moment the turn is accepted, the record is not rewritten while the
\* turn is active, and the update that completes the turn leaves the
\* counterpart with exactly that visibility.
C25_VerbatimRestoration ==
    /\ [][(lastCall'.name = "flipPage" /\ lastCall'.accepted) =>
            flip'.otherWasVisible = visible[flip'.other]]_vars
    /\ [][(flip.active /\ flip'.active) =>
            /\ flip'.other = flip.other
            /\ flip'.otherWasVisible = flip.otherWasVisible]_vars
    /\ [][CompletingUpdate =>
            /\ ~flip'.active
            /\ visible'[flip.other] = flip.otherWasVisible]_vars

\* a turn to the second of MaxSpreads spreads has just been completed by an
\* update, and the counterpart is showing again
C25_Witness ==
    /\ AfterUpdate /\ ~flip.active
    /\ emitted = <<SpreadChange(spreadIndex, nSpreads)>>
    /\ spreadIndex = 1 /\ nSpreads = MaxSpreads
    /\ visible["leftPage"] /\ visible["rightPage"]

----------------------------------------------------------------------------
(* C26 *)

\* the references held by this.flip
FlipRefsAllSet ==
    /\ flip.pivot # "null" /\ flip.hidden # "null" /\ flip.other # "null"
    /\ flip.under # "null"
    /\ flip.frontMesh # NoMesh /\ flip.backMesh # NoMesh

FlipRefsAllNull ==
    /\ flip.pivot = "null" /\ flip.hidden = "null" /\ flip.other = "null"
    /\ flip.under = "null"
    /\ flip.frontMesh = NoMesh /\ flip.backMesh = NoMesh

\* the host's onSpreadChange is running, called from inside endFlip
InSpreadChange == pc = -2

\* C26 as stated: in EVERY reachable state a turn is active if and only if
\* all six references are set, and with no turn active all are null and the
\* direction is 0.  While onSpreadChange runs for a completing turn the turn
\* is still active and four of the six references are already null.
C26_AllOrNothingEverywhere ==
    /\ flip.active <=> FlipRefsAllSet
    /\ ~flip.active => (FlipRefsAllNull /\ flip.dir = 0)

\* C26 (amended): whenever no call is in progress, a turn is active if and
\* only if the pivot, the hidden page, the counterpart page, the reveal
\* surface and both transient surfaces are all set, and with no turn active
\* all of them are null and the direction is 0; while onSpreadChange runs for
\* a completing turn, the turn is still active with its direction, pivot and
\* hidden page set, and the counterpart, the reveal surface and both
\* transient surfaces are already null.
C26_FlipStateLifetime ==
    /\ ~InSpreadChange =>
          /\ flip.active <=> FlipRefsAllSet
          /\ ~flip.active => (FlipRefsAllNull /\ flip.dir = 0)
    /\ InSpreadChange =>
          /\ flip.active /\ flip.dir = turn.dir
          /\ flip.pivot # "null" /\ flip.hidden # "null"
          /\ flip.other = "null" /\ flip.under = "null"
          /\ flip.frontMesh = NoMesh /\ flip.backMesh = NoMesh
          /\ emitted = <<SpreadChange(spreadIndex, nSpreads)>>

\* onSpreadChange is running for the completion of a second turn
C26_Witness ==
    /\ InSpreadChange /\ flip.active /\ flip.under = "null"
    /\ emitted = <<SpreadChange(spreadIndex, nSpreads)>>
    /\ cloned >= 2

----------------------------------------------------------------------------
(* C27 *)

\* the transient surfaces that this.flip refers to
HeldMeshes == {flip.frontMesh, flip.backMesh} \ {NoMesh}

\* C27: the meshes parented under the two flip hinges are exactly the
\* transient surfaces this.flip refers to; when there are any, a turn is
\* active, there are two, and both are children of the active hinge while
\* the other hinge has none; with no turn active neither hinge has a child;
\* there are never more than two; and they are attached together by an
\* accepted flipPage and detached together by the completing update.
C27_TransientOwnership ==
    /\ [](/\ Transients = HeldMeshes
          /\ Cardinality(Transients) <= 2
          /\ Transients # {} =>
                /\ flip.active /\ Cardinality(Transients) = 2
                /\ children[flip.pivot] = Transients
                /\ \A h \in {"pivotL", "pivotR"} \ {flip.pivot} :
                        children[h] = {}
          /\ ~flip.active =>
                children["pivotL"] = {} /\ children["pivotR"] = {})
    /\ [][Transients' # Transients =>
            \/ /\ Transients = {} /\ Cardinality(Transients') = 2
               /\ lastCall'.name = "flipPage" /\ lastCall'.accepted
            \/ /\ Cardinality(Transients) = 2 /\ Transients' = {}
               /\ CompletingUpdate]_vars

\* mid-turn, after an update, the left hinge holds both transient surfaces
\* and the right hinge none
C27_Witness ==
    /\ AfterUpdate /\ flip.active /\ flip.pivot = "pivotL"
    /\ children["pivotL"] = {flip.frontMesh, flip.backMesh}
    /\ Cardinality(children["pivotL"]) = 2
    /\ children["pivotR"] = {}

----------------------------------------------------------------------------
(* C28 *)

Abs(x) == IF x < 0 THEN -x ELSE x

\* -1 for a forward turn, +1 for a backward one
SweepSign(dir) == IF dir = 1 THEN -1 ELSE 1

\* C28: an accepted flipPage leaves the active hinge at angle 0; after each
\* update of the turn the hinge is at -pi * k (forward) or +pi * k (backward)
\* for k = easeInOut(min(1, elapsed / flipDuration)); while the turn stays
\* active the magnitude never decreases from one state to the next; and the
\* completing update leaves the hinge at exactly a half-turn, -pi or +pi.
\* Angles are numerators over FlipDen in units of pi.
C28_HingeSweep ==
    /\ [][(lastCall'.name = "flipPage" /\ lastCall'.accepted) =>
            pivotRot'[flip'.pivot] = 0]_vars
    /\ []((AfterUpdate /\ flip.active) =>
            pivotRot[flip.pivot]
                = SweepSign(turn.dir) * easeNum(now - turn.t0, FlipDur))
    /\ [][(flip.active /\ flip'.active) =>
            /\ flip'.pivot = flip.pivot
            /\ Abs(pivotRot'[flip.pivot]) >= Abs(pivotRot[flip.pivot])]_vars
    /\ [][CompletingUpdate =>
            /\ pivotRot'[flip.pivot] = SweepSign(turn.dir) * FlipDen
            /\ Abs(pivotRot'[flip.pivot]) >= Abs(pivotRot[flip.pivot])]_vars

\* a forward turn in the second half of its easing: the right hinge is past
\* a quarter-turn and short of a half-turn
C28_Witness ==
    /\ AfterUpdate /\ flip.active /\ turn.dir = 1
    /\ 2 * (now - turn.t0) >= FlipDur
    /\ 2 * pivotRot["pivotR"] < -FlipDen
    /\ pivotRot["pivotR"] > -FlipDen

----------------------------------------------------------------------------
(* C29 *)

\* the shared progress a of a cover animation at the current clock, over
\* CoverDen: k when opening, 1 - k when closing
SharedProgress ==
    IF cover.open
    THEN easeNum(now - cover.t0, CoverDur)
    ELSE CoverDen - easeNum(now - cover.t0, CoverDur)

\* the angle at progress a between a closed angle and the open angle 0
FoldAt(closedRot, a) == (CoverDen - a) * closedRot

\* the resting angle of the current cover state
RestAt(closedRot) == IF cover.open THEN 0 ELSE CoverDen * closedRot

\* C29: after every update the left half's fold angle equals the left cover
\* hinge's angle and the right half's the right hinge's; an update made while
\* a cover animation is in flight leaves all four at the angle given by the
\* one progress value a (k when opening, 1 - k when closing); and whenever
\* no cover animation is in flight all four sit at the constants of the
\* current state, 0 when open and the closed angle when closed.  Angles are
\* numerators over CoverDen in units of pi / 2.
C29_CoverContentLockstep ==
    /\ [](AfterUpdate =>
            halfRot.L = coverRot.left /\ halfRot.R = coverRot.right)
    /\ [][(lastCall'.name = "update" /\ cover.anim) =>
            /\ coverRot'.left = FoldAt(leftClosedRot, SharedProgress)
            /\ halfRot'.L = FoldAt(leftClosedRot, SharedProgress)
            /\ coverRot'.right = FoldAt(rightClosedRot, SharedProgress)
            /\ halfRot'.R = FoldAt(rightClosedRot, SharedProgress)]_vars
    /\ [](~cover.anim =>
            /\ coverRot.left = RestAt(leftClosedRot)
            /\ halfRot.L = RestAt(leftClosedRot)
            /\ coverRot.right = RestAt(rightClosedRot)
            /\ halfRot.R = RestAt(rightClosedRot))

\* an update has run part-way through a closing animation: both left angles
\* agree strictly between open and closed
C29_Witness ==
    /\ AfterUpdate /\ cover.anim /\ ~cover.open
    /\ halfRot.L = coverRot.left
    /\ coverRot.left > 0 /\ coverRot.left < CoverDen * leftClosedRot

----------------------------------------------------------------------------
(* C30 *)

\* C30: the animation state that an update leaves behind is the one given by
\* the clock minus the recorded start time alone, whatever frame time the
\* host passed and whether or not the animation had earlier updates: a cover
\* animation still in flight is short of its duration with all four angles
\* at the eased progress of the elapsed time; a turn still active is short
\* of its duration with the hinge and the counterpart page at the eased
\* progress of the elapsed time; and one update made at or after the
\* duration ends the animation at its final state, the cover at rest, the
\* turn committed with the hinge at a half-turn.
C30_FrameRateIndependence ==
    /\ [](AfterUpdate =>
            /\ cover.anim =>
                  /\ now - cover.t0 < CoverDur
                  /\ coverRot.left = FoldAt(leftClosedRot, SharedProgress)
                  /\ halfRot.L = FoldAt(leftClosedRot, SharedProgress)
                  /\ coverRot.right = FoldAt(rightClosedRot, SharedProgress)
                  /\ halfRot.R = FoldAt(rightClosedRot, SharedProgress)
            /\ flip.active =>
                  /\ now - flip.t0 < FlipDur
                  /\ pivotRot[flip.pivot] = SweepSign(flip.dir) * TurnK
                  /\ visible[flip.other]
                        = (IF 100 * TurnK <= 55 * FlipDen
                           THEN flip.otherWasVisible ELSE FALSE))
    /\ [][(lastCall'.name = "update" /\ cover.anim
            /\ now - cover.t0 >= CoverDur) =>
            /\ ~cover'.anim /\ cover'.open = cover.open
            /\ coverRot'.left = RestAt(leftClosedRot)
            /\ halfRot'.L = RestAt(leftClosedRot)
            /\ coverRot'.right = RestAt(rightClosedRot)
            /\ halfRot'.R = RestAt(rightClosedRot)]_vars
    /\ [][CompletingUpdate =>
            /\ ~flip'.active
            /\ spreadIndex' = turn.from + turn.dir
            /\ pivotRot'[flip.pivot] = SweepSign(turn.dir) * FlipDen]_vars

\* dropped frames: a turn was completed by the first update made since it was
\* accepted, with a frame time of 0 although the whole duration had elapsed
C30_Witness ==
    /\ AfterUpdate /\ ~flip.active
    /\ emitted = <<SpreadChange(spreadIndex, nSpreads)>>
    /\ ~turn.updated
    /\ lastCall.dir = 0

----------------------------------------------------------------------------
(* C31 *)

\* C31: after construction the current index changes only in an update made
\* FlipDur or more after the active turn was accepted, and then to the index
\* of that turn plus its direction; no flipPage call, accepted or rejected,
\* no toggleCover call, no clock advance and no update that leaves the turn
\* incomplete changes it.
C31_IndexFrame ==
    /\ [][spreadIndex' # spreadIndex =>
            /\ CompletingUpdate
            /\ spreadIndex' = turn.from + turn.dir]_vars
    /\ [][lastCall'.name \in {"flipPage", "toggleCover", "tick"} =>
            spreadIndex' = spreadIndex]_vars
    /\ [][(lastCall'.name = "update" /\ flip.active /\ flip'.active) =>
            spreadIndex' = spreadIndex]_vars

\* an update has run during a turn accepted from spread 1 and has left the
\* turn incomplete and the index where it was
C31_Witness ==
    /\ AfterUpdate /\ flip.active /\ now > flip.t0
    /\ turn.from = 1 /\ turn.dir = 1 /\ spreadIndex = 1

----------------------------------------------------------------------------
(* C32 *)

\* the material of a static page and of a reveal surface
MatOf(page) == IF page = "leftPage" THEN "leftMat" ELSE "rightMat"

UnderMatOf(under) == IF under = "underLeft" THEN "underMatL" ELSE "underMatR"

\* the texture a mirrored duplicate was made from
SourceOf(tex) == [tex EXCEPT !.mirrored = FALSE, !.clone = 0]

\* C32: throughout a turn the reveal surface is showing with the texture of
\* spread nextIndex on the side of the hidden page; the completing update
\* commits exactly the nextIndex computed at acceptance (index at acceptance
\* plus direction, untouched by the clamp), gives the formerly hidden static
\* page the very texture the reveal surface showed, and gives the counterpart
\* static page the texture the mirrored back face was duplicated from.
C32_SeamlessCommit ==
    /\ [](flip.active =>
            /\ visible[flip.under]
            /\ matMap[UnderMatOf(flip.under)]
                 = SpreadTex(turn.from + turn.dir,
                             IF flip.hidden = "leftPage" THEN "left" ELSE "right"))
    /\ [][CompletingUpdate =>
            /\ spreadIndex' = turn.from + turn.dir
            /\ spreadIndex' = spreadIndex + flip.dir
            /\ matMap'[MatOf(flip.hidden)] = matMap[UnderMatOf(flip.under)]
            /\ matMap'[MatOf(flip.other)] = SourceOf(flip.backMesh.map)
            /\ flip.backMesh.map.mirrored
            /\ visible'[flip.hidden] /\ visible'[flip.other]]_vars

\* a turn about the left hinge has just been committed in a book that never
\* turned forward: the left static page carries what the left reveal surface
\* showed
C32_Witness ==
    /\ AfterUpdate /\ ~flip.active
    /\ emitted = <<SpreadChange(spreadIndex, nSpreads)>>
    /\ nSpreads = MaxSpreads /\ spreadIndex = nSpreads - 2
    /\ pivotRot["pivotL"] = FlipDen /\ pivotRot["pivotR"] = 0
    /\ matMap["leftMat"] = matMap["underMatL"]

----------------------------------------------------------------------------
(* C33 *)

\* C33: in every state after construction, during a turn and while
\* onSpreadChange runs included, the left static page material holds
\* spreads[currentIndex].left and the right one spreads[currentIndex].right,
\* the caller's own textures and none of them null.
C33_StaticPageTextures ==
    /\ matMap["leftMat"] = SpreadTex(spreadIndex, "left")
    /\ matMap["rightMat"] = SpreadTex(spreadIndex, "right")
    /\ matMap["leftMat"] # NoTex /\ matMap["rightMat"] # NoTex
    /\ spreadIndex \in 0 .. nSpreads - 1

\* onSpreadChange is running for a turn that arrived on the last spread
C33_Witness ==
    /\ InSpreadChange
    /\ nSpreads = MaxSpreads /\ spreadIndex = nSpreads - 1
    /\ matMap["rightMat"] = SpreadTex(nSpreads - 1, "right")

----------------------------------------------------------------------------
(* C34 *)

\* C34 as stated: the update that completes a turn commits the new current
\* spread and consults the flip cache.  endFlip calls cleanupFlipMeshes and
\* setSpread and never getFlippedTex.
C34_CompletionConsultsCache ==
    [][CompletingUpdate =>
        /\ spreadIndex' = turn.from + turn.dir
        /\ lastCall'.lookups # {}]_vars

\* C34 (amended): the update that completes a turn commits the new current
\* spread and neither consults nor changes the flip cache; the only lookups
\* are the one an accepted flipPage makes for the back face of its own turn,
\* whose mirrored texture is therefore in the cache from acceptance on.
C34_CacheConsultedAtAcceptance ==
    /\ [][CompletingUpdate =>
            /\ spreadIndex' = turn.from + turn.dir
            /\ lastCall'.lookups = {}
            /\ flippedCache' = flippedCache /\ cloned' = cloned]_vars
    /\ [][lastCall'.name # "flipPage" =>
            /\ lastCall'.lookups = {}
            /\ flippedCache' = flippedCache /\ cloned' = cloned]_vars
    /\ [][lastCall'.name = "flipPage" =>
            lastCall'.lookups
              = (IF lastCall'.accepted
                 THEN {<<BackKey(lastCall'.dir, spreadIndex + lastCall'.dir),
                         BackSource(lastCall'.dir, spreadIndex + lastCall'.dir)>>}
                 ELSE {})]_vars
    /\ [](flip.active =>
            /\ BackKey(flip.dir, spreadIndex + flip.dir) \in DOMAIN flippedCache
            /\ flip.backMesh.map
                 = flippedCache[BackKey(flip.dir, spreadIndex + flip.dir)])

\* a turn onto the middle spread has just been committed without a lookup;
\* the cache holds the back face of a forward turn onto that spread and has
\* never held the back face of a backward turn onto it
C34_Witness ==
    /\ AfterUpdate /\ ~flip.active
    /\ emitted = <<SpreadChange(spreadIndex, nSpreads)>>
    /\ lastCall.lookups = {}
    /\ nSpreads = MaxSpreads /\ spreadIndex = 1
    /\ CacheKey(1, "left") \in DOMAIN flippedCache
    /\ CacheKey(1, "right") \notin DOMAIN flippedCache

----------------------------------------------------------------------------
(* C35 *)

\* C35: every accepted turn moves the book to an adjacent spread: the index
\* committed by the completing update differs from the index at acceptance by
\* exactly 1.  flipPage takes any number; 0 and +-2 pass its guards when the
\* target is in bounds, and the turn then commits the same spread or skips one.
C35_AdjacentSpread ==
    [][CompletingUpdate => Abs(spreadIndex' - turn.from) = 1]_vars

----------------------------------------------------------------------------
(* C36 *)

\* C36: whenever no turn is active both static pages are visible; the
\* counterpart visibility on record is 'visible' in every state, and an
\* accepted flipPage finds its counterpart visible and records that.
C36_PagesVisibleWhenIdle ==
    /\ [](~flip.active => visible["leftPage"] /\ visible["rightPage"])
    /\ [](flip.otherWasVisible)
    /\ [][(lastCall'.name = "flipPage" /\ lastCall'.accepted) =>
            /\ visible[flip'.other]
            /\ flip'.otherWasVisible]_vars

\* a turn has been accepted right after another one was completed past its
\* crossover, and the counterpart was recorded as visible
C36_Witness ==
    /\ lastCall.name = "flipPage" /\ lastCall.accepted
    /\ flip.active /\ flip.otherWasVisible /\ visible[flip.other]
    /\ now >= FlipDur /\ flip.t0 = now
    /\ pivotRot["pivotR"] = -FlipDen

----------------------------------------------------------------------------
(* C37 *)

\* C37: with turns of direction +1 and -1 only, every lookup asks for key
\* (n, side) with the texture spreads[n].side, so every stored handle is the
\* mirrored duplicate of its own key's texture; a forward turn asks only for
\* a left-side key and a backward turn only for a right-side key; left-side
\* keys are for spreads 1 .. N-1 and right-side keys for spreads 0 .. N-2; and
\* the cache never holds more than 2 * (N - 1) entries.
C37_FlipCacheConsistency ==
    /\ [](/\ \A l \in lastCall.lookups :
                /\ l[2] = SpreadTex(l[1][1], l[1][2])
                /\ l[1][2] = (IF lastCall.dir = 1 THEN "left" ELSE "right")
                /\ l[1][1] = turn.from + turn.dir
          /\ \A k \in DOMAIN flippedCache :
                /\ flippedCache[k].mirrored
                /\ SourceOf(flippedCache[k]) = SpreadTex(k[1], k[2])
                /\ k[2] = "left" => k[1] \in 1 .. nSpreads - 1
                /\ k[2] = "right" => k[1] \in 0 .. nSpreads - 2
          /\ Cardinality(DOMAIN flippedCache) <= 2 * (nSpreads - 1))
    /\ [][\A k \in DOMAIN flippedCache' \ DOMAIN flippedCache :
            /\ lastCall'.name = "flipPage" /\ lastCall'.accepted
            /\ k[2] = (IF lastCall'.dir = 1 THEN "left" ELSE "right")]_vars

\* a book of three spreads has been turned both ways over both of its
\* boundaries: the cache is full with four entries
C37_Witness ==
    /\ nSpreads = 3
    /\ DOMAIN flippedCache
         = {CacheKey(1, "left"), CacheKey(2, "left"),
            CacheKey(0, "right"), CacheKey(1, "right")}
    /\ cloned = 4

----------------------------------------------------------------------------
(* C38 *)

\* this step is an accepted toggleCover
AcceptedToggle == lastCall'.name = "toggleCover" /\ lastCall'.accepted

\* C38: the open flag that isCoverOpen() returns changes in a step if and
\* only if the step is an accepted toggleCover, which inverts it at once,
\* with the animation only starting; update, flipPage, rejected toggleCover
\* calls and clock advances never change it.
C38_CoverOpenIsTarget ==
    /\ [][(cover'.open # cover.open) <=> AcceptedToggle]_vars
    /\ [][AcceptedToggle =>
            /\ cover'.open = ~cover.open
            /\ cover'.anim /\ cover'.t0 = now
            /\ coverRot' = coverRot /\ halfRot' = halfRot]_vars
    /\ [][lastCall'.name \in {"update", "flipPage", "tick"} =>
            cover'.open = cover.open]_vars

\* the cover reports open while an update finds it part-way up from closed
C38_Witness ==
    /\ AfterUpdate /\ cover.anim /\ cover.open
    /\ coverRot.left > 0 /\ coverRot.left < CoverDen * leftClosedRot
    /\ coverRot.right < 0

----------------------------------------------------------------------------
(* The original implementation, inline in Game (game.ts): the closure       *)
(* variables spreadIndex, cover, flip and the .visible flags of the four    *)
(* surfaces, as one record g; t is performance.now() / 1000 at the call.    *)
(* Rotations, materials and the transient meshes are written by this code   *)
(* and never read back by it, and are left out.                             *)

SPEED_cover == 4

SPEED_flip == 3

\* the closure state when the set-up code has run: setSpread(0)
inlineInit(n) ==
    [nSpreads    |-> n,
     spreadIndex |-> clamp(0, 0, n - 1),
     cover       |-> [open |-> TRUE, t0 |-> 0, anim |-> FALSE],
     flip        |-> [active |-> FALSE, dir |-> 0, t0 |-> 0, pivot |-> "null",
                      hidden |-> "null", under |-> "null", other |-> "null",
                      otherWasVisible |-> TRUE],
     visible     |-> [leftPage |-> TRUE, rightPage |-> TRUE,
                      underLeft |-> FALSE, underRight |-> FALSE]]

startToggleCover_noFlipGuard(g, t) ==
    IF g.cover.anim
    THEN g
    ELSE [g EXCEPT !.cover = [open |-> ~g.cover.open, t0 |-> t, anim |-> TRUE]]

\* startToggleCover()
startToggleCover(g, t) ==
    IF g.flip.active \/ g.cover.anim
    THEN g
    ELSE [g EXCEPT !.cover = [open |-> ~g.cover.open, t0 |-> t, anim |-> TRUE]]

\* startFlip(dir)
startFlip(g, dir, t) ==
    LET nextIndex == g.spreadIndex + dir
    IN  IF ~g.cover.open \/ g.cover.anim
        THEN g
        ELSE IF g.flip.active
        THEN g
        ELSE IF nextIndex < 0 \/ nextIndex >= g.nSpreads
        THEN g
        ELSE IF dir = 1
        THEN [g EXCEPT
                !.flip = [active |-> TRUE, dir |-> dir, t0 |-> t,
                          pivot |-> "pivotR", hidden |-> "rightPage",
                          under |-> "underRight", other |-> "leftPage",
                          otherWasVisible |-> g.visible.leftPage],
                !.visible = [@ EXCEPT !.underRight = TRUE, !.rightPage = FALSE]]
        ELSE [g EXCEPT
                !.flip = [active |-> TRUE, dir |-> dir, t0 |-> t,
                          pivot |-> "pivotL", hidden |-> "leftPage",
                          under |-> "underLeft", other |-> "rightPage",
                          otherWasVisible |-> g.visible.rightPage],
                !.visible = [@ EXCEPT !.underLeft = TRUE, !.leftPage = FALSE]]

\* cleanupFlipMeshes() of game.ts
inlineCleanupFlipMeshes(g) ==
    LET v1 == SetVis(g.visible, g.flip.under, FALSE)
        v2 == SetVis(v1, g.flip.other, g.flip.otherWasVisible)
    IN  [g EXCEPT !.visible = v2,
                  !.flip.under = "null",
                  !.flip.other = "null",
                  !.flip.otherWasVisible = TRUE]

\* setSpread(i) of game.ts: no callback
inlineSetSpread(g, i) ==
    [g EXCEPT !.spreadIndex = clamp(i, 0, g.nSpreads - 1)]

\* endFlip() of game.ts
inlineEndFlip(g) ==
    LET restored == g.flip.other
        revealed == g.flip.hidden
        hid == [g EXCEPT !.visible =
                    SetVis(SetVis(@, restored, FALSE), revealed, FALSE)]
        cleaned == inlineCleanupFlipMeshes(hid)
        committed == inlineSetSpread(cleaned, cleaned.spreadIndex + cleaned.flip.dir)
        shown == [committed EXCEPT !.visible =
                    SetVis(SetVis(@, revealed, TRUE), restored, TRUE)]
    IN  [shown EXCEPT !.flip.active = FALSE,
                      !.flip.dir = 0,
                      !.flip.pivot = "null",
                      !.flip.hidden = "null"]

\* if (!flip.active) { underLeft.visible = false; underRight.visible = false }
inlineHideUnders(g) ==
    IF g.flip.active
    THEN g
    ELSE [g EXCEPT !.visible.underLeft = FALSE, !.visible.underRight = FALSE]

\* animate(): the cover block
inlineCoverBlock(g, t) ==
    IF g.cover.anim
    THEN [inlineHideUnders(g) EXCEPT
            !.cover.anim = IF t - g.cover.t0 >= SPEED_cover THEN FALSE ELSE @]
    ELSE inlineHideUnders(g)

\* animate(): the flip block
inlineFlipBlock(g, t) ==
    IF g.flip.active /\ g.flip.pivot # "null"
    THEN LET kNum == easeNum(t - g.flip.t0, SPEED_flip)
             den == SPEED_flip * SPEED_flip * SPEED_flip
             crossed == [g EXCEPT !.visible =
                            SetVis(@, g.flip.other,
                                   IF belowCrossover(kNum, den)
                                   THEN g.flip.otherWasVisible ELSE FALSE)]
         IN  IF t - g.flip.t0 >= SPEED_flip THEN inlineEndFlip(crossed) ELSE crossed
    ELSE g

\* animate(), up to the render call
animate(g, t) == inlineFlipBlock(inlineCoverBlock(g, t), t)

\* the Book as Game builds it: no initialSpreadIndex in bookConfig
RefactorInit ==
    \E n \in 1 .. MaxSpreads : Constructed(n, [given |-> FALSE, value |-> 0])

\* the Book driven by Game's handlers and frame loop from that state
SpecRefactor == RefactorInit /\ [][AdjacentNext]_vars

----------------------------------------------------------------------------
(* C39 *)

\* the Book's fields that correspond to the inline implementation's state
BookView ==
    [nSpreads    |-> nSpreads,
     spreadIndex |-> spreadIndex,
     cover       |-> cover,
     flip        |-> [active |-> flip.active, dir |-> flip.dir, t0 |-> flip.t0,
                      pivot |-> flip.pivot, hidden |-> flip.hidden,
                      under |-> flip.under, other |-> flip.other,
                      otherWasVisible |-> flip.otherWasVisible],
     visible     |-> visible]

\* what the inline implementation does with state g for the step the Book
\* has just taken: the clock advance touches nothing, toggleCover is
\* startToggleCover, flipPage(dir) is startFlip(dir), update is animate
InlineAfter(g) ==
    CASE lastCall'.name = "toggleCover" -> startToggleCover(g, now)
      [] lastCall'.name = "flipPage"    -> startFlip(g, lastCall'.dir, now)
      [] lastCall'.name = "update"      -> animate(g, now)
      [] OTHER                          -> g

\* C39: started alike (index 0, cover open, no turn) and given the same
\* sequence of toggle-cover, flip(+1/-1), frame-update and clock-advance
\* steps at the same clock readings, the Book class and the inline
\* implementation stay in states that agree on the cover's open and animating
\* flags, the turn's active flag and direction, the spread index and the
\* visibility of the static pages and reveal surfaces (and on the start
\* times and turn references from which those are computed): the states
\* agree at the start and every step of the Book is the inline step.
C39_RefactoringEquivalence ==
    /\ BookView = inlineInit(nSpreads)
    /\ [][BookView' = InlineAfter(BookView)]_vars

\* the inline implementation run on its own: a forward turn asked at 0 and
\* completed by the frame at 3, the cover toggled at 3, the frame at 5
InlineRun ==
    animate(startToggleCover(animate(startFlip(inlineInit(3), 1, 0), 3), 3), 5)

\* the Book has been taken through the same steps and is in the same state:
\* index 1, cover closing and part-way, no turn
C39_Witness ==
    /\ AfterUpdate /\ now = 5
    /\ BookView = InlineRun
    /\ spreadIndex = 1 /\ ~cover.open /\ cover.anim /\ ~flip.active
    /\ turn = NoTurn /\ rt.count = 1 /\ rt.prev.index = 1

====
